---- MODULE Spec2Model ----
(***************************************************************************)
(* The session registry of the users package (src/unnamed/part_000): the   *)
(* users map and userCount, the registry actions loginUser, getUser,       *)
(* changeUserRoomName and logUserOut, and the caller-side operations       *)
(* Login, Get, Join, Leave, LogOut and Kick that reach the registry only   *)
(* through usersActionChan.Execute.  The action channel (package helpers)  *)
(* and the room collaborator (package rooms) are not among the source      *)
(* files; they are modelled from their description: one worker that pulls  *)
(* the next submitted action, runs it to completion and hands the result   *)
(* to the submitting caller, and rooms whose lookup, AddUser and           *)
(* RemoveUser may each fail.  The start-up functions SetServerStarted and  *)
(* SettingsSet, which share no state with the registry, have a             *)
(* specification of their own, as have a room collaborator that never      *)
(* fails and an action channel that may be shut down.                      *)
(***************************************************************************)
EXTENDS Integers, Sequences, FiniteSets, TLC

\* ------------------------------------------------------------------ bounds
\* Number of API calls the callers issue in one run.
MaxCalls == 4

\* Number of calls of SetServerStarted and SettingsSet in one run.
MaxSettingsCalls == 4

\* The concurrent caller goroutines.
Callers == {1, 2}

\* ---------------------------------------------------------------- constants
\* const ( StatusAvailable = iota ; StatusInGame ; StatusIdle )
StatusAvailable == 0

\* Error values.  The source builds them with errors.New(text); the model
\* names each by its kind.  NoErr is Go's nil error.
NoErr == "nil"
InvalidArgument == "InvalidArgument"
AlreadyLoggedIn == "AlreadyLoggedIn"
NotLoggedIn == "NotLoggedIn"
AlreadyInRoom == "AlreadyInRoom"
NotInRoom == "NotInRoom"
RoomNotFound == "RoomNotFound"
RemoveUserFailed == "RemoveUserFailed"
AddUserFailed == "AddUserFailed"
ExecutorUnavailable == "ExecutorUnavailable"

\* A nil *websocket.Conn.
NilSocket == "nil"

\* The zero value User{} that every failing path returns.
ZeroUser ==
  [name |-> "", databaseID |-> 0, isGuest |-> FALSE, room |-> "",
   status |-> 0, socket |-> NilSocket]

\* ------------------------------------------------------------------ inputs
Names == {"a", "b"}
Rooms == {"r1", "r2"}

\* Arguments the callers pass to Login: the two logins of one name with
\* different database IDs, guest flags and sockets, a guest that supplies a
\* database ID, a second name, and one input for each rejected shape.
LoginInputs ==
  { [name |-> "a", databaseID |-> 7,  isGuest |-> TRUE,  socket |-> "T1"],
    [name |-> "a", databaseID |-> 7,  isGuest |-> FALSE, socket |-> "T2"],
    [name |-> "b", databaseID |-> -1, isGuest |-> FALSE, socket |-> "T1"],
    [name |-> "",  databaseID |-> 7,  isGuest |-> FALSE, socket |-> "T1"],
    [name |-> "a", databaseID |-> -2, isGuest |-> FALSE, socket |-> "T1"],
    [name |-> "b", databaseID |-> 7,  isGuest |-> FALSE, socket |-> NilSocket] }

\* Names passed to Get and Kick (the empty name is rejected).
NameInputs == Names \cup {""}

\* ------------------------------------------------------------------- state
VARIABLES
  users,      \* the map users: a function from the logged-in names to User
  userCount,  \* the counter userCount
  queue,      \* actions sent to usersActionChan and not yet pulled
  running,    \* actions pulled (or called) and not yet completed
  nsub,       \* number of actions accepted so far (the next ticket is nsub+1)
  ndone,      \* number of actions completed so far
  pc,         \* each caller's position
  op,         \* the API call each caller is in, or was in last
  sess,       \* each caller's User value: <<>> or <<u>>
  kuser,      \* Kick's local variable user: <<>> or <<u>>
  resp,       \* the response delivered to a blocked caller: <<>> or <<r>>
  trace,      \* what that call did so far, in order
  ret,        \* the error each caller's last API call returned
  members,    \* the room collaborator's membership, per room
  removed,    \* per name, the record last deleted from users: <<>> or <<u>>
  calls,      \* number of API calls each caller has issued so far
  serverStarted, \* the flag serverStarted
  kickOnLogin,   \* the setting kickOnLogin
  startup,    \* the calls of SetServerStarted and SettingsSet made so far
  closed,     \* whether the action channel has been shut down
  faulty      \* whether calls into the room collaborator may fail

vars ==
  <<users, userCount, queue, running, nsub, ndone, pc, op, sess, kuser,
    resp, trace, ret, members, removed, calls, serverStarted, kickOnLogin,
    startup, closed, faulty>>

callerVars == <<pc, op, sess, kuser, resp, trace, ret>>
registryVars == <<users, userCount, removed>>
channelVars == <<queue, running, nsub, ndone>>
settingsVars == <<serverStarted, kickOnLogin, startup>>

\* What the registry's API and actions never write: the start-up settings
\* and the environment (the channel's shutdown, the collaborator's health).
outerVars == <<settingsVars, closed, faulty>>

\* An API call: its kind, the name it is about, for Join the target room,
\* and for Login the databaseID, guest flag and socket as supplied.
NoOp == [kind |-> "none", name |-> "", room |-> "", databaseID |-> 0,
         isGuest |-> FALSE, socket |-> NilSocket]

\* The package-level variables as declared, and callers that have not
\* called anything yet.
Boot ==
  /\ users = << >>
  /\ userCount = 0
  /\ queue = << >>
  /\ running = {}
  /\ nsub = 0
  /\ ndone = 0
  /\ pc = [p \in Callers |-> "idle"]
  /\ op = [p \in Callers |-> NoOp]
  /\ sess = [p \in Callers |-> << >>]
  /\ kuser = [p \in Callers |-> << >>]
  /\ resp = [p \in Callers |-> << >>]
  /\ trace = [p \in Callers |-> << >>]
  /\ ret = [p \in Callers |-> NoErr]
  /\ members = [r \in Rooms |-> {}]
  /\ removed = [n \in Names |-> << >>]
  /\ calls = [p \in Callers |-> 0]
  /\ serverStarted = FALSE
  /\ kickOnLogin = FALSE
  /\ startup = << >>
  /\ closed = FALSE

\* The room collaborator may fail any call made into it.
Init == Boot /\ faulty = TRUE

\* The room collaborator answers every call with success.
ReliableInit == Boot /\ faulty = FALSE

\* ------------------------------------------------------------ the registry
\* users[name] = &newUser
MapPut(m, k, v) == [x \in (DOMAIN m) \cup {k} |-> IF x = k THEN v ELSE m[x]]

\* delete(users, name): no effect when the key is absent
MapDelete(m, k) == [x \in (DOMAIN m) \ {k} |-> m[x]]

\* What running a registry action leaves behind: the map, the counter, the
\* callers' User values (changeUserRoomName writes through its *User
\* argument), the returned value and error, and whether the body itself
\* called usersActionChan.Execute.
Outcome(u, c, s, v, e) ==
  [users |-> u, userCount |-> c, sess |-> s, val |-> v, err |-> e,
   nested |-> FALSE]

\* A registry that hands a deleted record out again on the next login.
loginUserReuse(a) ==
  IF a.arg.name \in DOMAIN users
  THEN Outcome(users, userCount, sess, ZeroUser, AlreadyLoggedIn)
  ELSE LET fresh == [name |-> a.arg.name, databaseID |-> a.arg.databaseID,
                     isGuest |-> a.arg.isGuest, room |-> "",
                     status |-> StatusAvailable, socket |-> a.arg.socket]
           newUser == IF removed[a.arg.name] # << >>
                      THEN removed[a.arg.name][1] ELSE fresh
       IN Outcome(MapPut(users, a.arg.name, newUser), userCount + 1, sess,
                  newUser, NoErr)

\* func loginUser(p []interface{}) []interface{}
loginUser(a) ==
  IF a.arg.name \in DOMAIN users
  THEN Outcome(users, userCount, sess, ZeroUser, AlreadyLoggedIn)
  ELSE LET newUser == [name |-> a.arg.name, databaseID |-> a.arg.databaseID,
                       isGuest |-> a.arg.isGuest, room |-> "",
                       status |-> StatusAvailable, socket |-> a.arg.socket]
       IN Outcome(MapPut(users, a.arg.name, newUser), userCount + 1, sess,
                  newUser, NoErr)

\* A lookup that reports a stored user as missing its room.
getUserNoRoom(a) ==
  IF a.arg.name \in DOMAIN users
  THEN Outcome(users, userCount, sess,
               [users[a.arg.name] EXCEPT !.room = ""], NoErr)
  ELSE Outcome(users, userCount, sess, ZeroUser, NotLoggedIn)

\* func getUser(p []interface{}) []interface{}
getUser(a) ==
  IF a.arg.name \in DOMAIN users
  THEN Outcome(users, userCount, sess, users[a.arg.name], NoErr)
  ELSE Outcome(users, userCount, sess, ZeroUser, NotLoggedIn)

\* A room change that puts the caller's User value back into the registry
\* when the name has no entry.
changeUserRoomNameUpsert(a) ==
  LET theUser == sess[a.by][1]
      moved == [theUser EXCEPT !.room = a.arg.room]
  IN IF theUser.name \in DOMAIN users
     THEN Outcome([users EXCEPT ![theUser.name].room = a.arg.room], userCount,
                  [sess EXCEPT ![a.by] = <<moved>>], ZeroUser, NoErr)
     ELSE Outcome(MapPut(users, theUser.name, moved), userCount,
                  [sess EXCEPT ![a.by] = <<moved>>], ZeroUser, NoErr)

\* A room change that leaves the caller's own User value as it was.
changeUserRoomNameRegistryOnly(a) ==
  LET theUser == sess[a.by][1]
  IN IF theUser.name \in DOMAIN users
     THEN Outcome([users EXCEPT ![theUser.name].room = a.arg.room], userCount,
                  sess, ZeroUser, NoErr)
     ELSE Outcome(users, userCount, sess, ZeroUser, NotLoggedIn)

\* func changeUserRoomName(p []interface{}) []interface{}
\* theUser points at the User value of the caller that submitted the action.
changeUserRoomName(a) ==
  LET theUser == sess[a.by][1]
  IN IF theUser.name \in DOMAIN users
     THEN Outcome([users EXCEPT ![theUser.name].room = a.arg.room], userCount,
                  [sess EXCEPT ![a.by] = <<[theUser EXCEPT !.room = a.arg.room]>>],
                  ZeroUser, NoErr)
     ELSE Outcome(users, userCount, sess, ZeroUser, NotLoggedIn)

\* A logout that reports a name it does not find.
logUserOutStrict(a) ==
  IF a.arg.name \in DOMAIN users
  THEN Outcome(MapDelete(users, a.arg.name), userCount, sess, ZeroUser, NoErr)
  ELSE Outcome(users, userCount, sess, ZeroUser, NotLoggedIn)

\* A logout that takes the session back out of the counter.
logUserOutCounting(a) ==
  Outcome(MapDelete(users, a.arg.name),
          IF a.arg.name \in DOMAIN users THEN userCount - 1 ELSE userCount,
          sess, ZeroUser, NoErr)

\* A logout body that goes back through the action channel it runs on.
logUserOutNested(a) ==
  [Outcome(MapDelete(users, a.arg.name), userCount, sess, ZeroUser, NoErr)
     EXCEPT !.nested = TRUE]

\* func logUserOut(p []interface{}) []interface{}
logUserOut(a) ==
  Outcome(MapDelete(users, a.arg.name), userCount, sess, ZeroUser, NoErr)

\* action.action(action.params): the function value carried by the action
Apply(a) ==
  CASE a.fn = "loginUser" -> loginUser(a)
    [] a.fn = "getUser" -> getUser(a)
    [] a.fn = "changeUserRoomName" -> changeUserRoomName(a)
    [] a.fn = "logUserOut" -> logUserOut(a)

\* ------------------------------------------------------- the action channel
\* The listener goroutine started by helpers.NewActionChannel().
Worker == 0

Action(p, fn, arg) == [by |-> p, fn |-> fn, arg |-> arg, tk |-> nsub + 1]

\* What Execute returns when the channel does not take the action.
Unavailable == [val |-> ZeroUser, err |-> ExecutorUnavailable]

\* usersActionChan.Execute(fn, params), up to the send: the action joins the
\* queue behind those accepted before it; the caller then waits for resp.
\* On a channel that has been shut down the action is not accepted, and
\* Execute hands the caller the failure in place of a response.
Execute(p, fn, arg) ==
  IF closed
  THEN /\ resp' = [resp EXCEPT ![p] = <<Unavailable>>]
       /\ UNCHANGED <<queue, nsub, running, ndone>>
  ELSE /\ queue' = Append(queue, Action(p, fn, arg))
       /\ nsub' = nsub + 1
       /\ UNCHANGED <<running, ndone, resp>>

\* A listener that pulls the action accepted last.
WorkerPullNewest ==
  /\ queue # << >>
  /\ \A r \in running : r[1] # Worker
  /\ running' = running \cup {<<Worker, queue[Len(queue)]>>}
  /\ queue' = SubSeq(queue, 1, Len(queue) - 1)
  /\ UNCHANGED <<nsub, ndone, registryVars, callerVars, members, calls, outerVars>>

\* The listener pulls the next action once it has delivered the last one.
WorkerPull ==
  /\ queue # << >>
  /\ \A r \in running : r[1] # Worker
  /\ running' = running \cup {<<Worker, Head(queue)>>}
  /\ queue' = Tail(queue)
  /\ UNCHANGED <<nsub, ndone, registryVars, callerVars, members, calls, outerVars>>

\* The action's body runs to completion and its result goes to the caller
\* that submitted it.  A body that called Execute on the same channel would
\* wait for the listener that is running it, and never complete.
Complete(r) ==
  LET a == r[2]
      out == Apply(a)
  IN /\ ~ out.nested
     /\ users' = out.users
     /\ userCount' = out.userCount
     /\ sess' = out.sess
     /\ removed' = [n \in Names |->
                      IF n \in DOMAIN users /\ n \notin DOMAIN out.users
                      THEN <<users[n]>> ELSE removed[n]]
     /\ resp' = [resp EXCEPT ![a.by] = <<[val |-> out.val, err |-> out.err]>>]
     /\ running' = running \ {r}
     /\ ndone' = ndone + 1
     /\ UNCHANGED <<queue, nsub, pc, op, kuser, trace, ret, members, calls,
                     outerVars>>

WorkerRun == \E r \in running : Complete(r)

\* ------------------------------------------------------------- the callers
Arg(name, databaseID, isGuest, socket, room) ==
  [name |-> name, databaseID |-> databaseID, isGuest |-> isGuest,
   socket |-> socket, room |-> room]

NoArg == Arg("", 0, FALSE, NilSocket, "")

Op(kind, name, room) == [NoOp EXCEPT !.kind = kind, !.name = name, !.room = room]

LoginOp(in) ==
  [kind |-> "Login", name |-> in.name, room |-> "", databaseID |-> in.databaseID,
   isGuest |-> in.isGuest, socket |-> in.socket]

RECURSIVE Sum(_, _)
Sum(f, S) == IF S = {} THEN 0 ELSE LET x == CHOOSE y \in S : TRUE
                                   IN f[x] + Sum(f, S \ {x})

\* Number of API calls issued so far.
Issued == Sum(calls, Callers)

\* A caller issues its next API call.
Call(p) ==
  /\ pc[p] = "idle"
  /\ Issued < MaxCalls
  /\ calls' = [calls EXCEPT ![p] = @ + 1]

\* The call o of caller p returns err, having done tr.
Return(p, o, err, tr) ==
  /\ pc' = [pc EXCEPT ![p] = "idle"]
  /\ op' = [op EXCEPT ![p] = o]
  /\ trace' = [trace EXCEPT ![p] = tr]
  /\ ret' = [ret EXCEPT ![p] = err]

\* The call o of caller p goes on at position at, having done tr.
Goto(p, o, at, tr) ==
  /\ pc' = [pc EXCEPT ![p] = at]
  /\ op' = [op EXCEPT ![p] = o]
  /\ trace' = [trace EXCEPT ![p] = tr]
  /\ ret' = [ret EXCEPT ![p] = NoErr]

\* A Login that sends the databaseID as supplied, guest or not.
LoginKeepsID(p) ==
  \E in \in LoginInputs :
    /\ Call(p)
    /\ IF in.name = "" \/ in.databaseID < -1 \/ in.socket = NilSocket
       THEN /\ Return(p, LoginOp(in), InvalidArgument, << >>)
            /\ UNCHANGED <<channelVars, resp>>
       ELSE /\ Execute(p, "loginUser",
                       Arg(in.name, in.databaseID, in.isGuest, in.socket, ""))
            /\ Goto(p, LoginOp(in), "login_wait", <<"loginUser">>)
    /\ UNCHANGED <<registryVars, sess, kuser, members, outerVars>>

\* func Login: the input checks, the guest's databaseID, and the send of
\* loginUser.
Login(p) ==
  \E in \in LoginInputs :
    /\ Call(p)
    /\ IF in.name = "" \/ in.databaseID < -1 \/ in.socket = NilSocket
       THEN /\ Return(p, LoginOp(in), InvalidArgument, << >>)
            /\ UNCHANGED <<channelVars, resp>>
       ELSE LET databaseID == IF in.isGuest THEN -1 ELSE in.databaseID
            IN /\ Execute(p, "loginUser",
                          Arg(in.name, databaseID, in.isGuest, in.socket, ""))
               /\ Goto(p, LoginOp(in), "login_wait", <<"loginUser">>)
    /\ UNCHANGED <<registryVars, sess, kuser, members, outerVars>>

\* func Login, from the response on.  The condition of the inner if is
\* empty in the source, so no build decides which branch runs: when the
\* action returned an error, either the error is dropped (the empty branch)
\* or it becomes Login's error (the else branch).
LoginReturn(p) ==
  /\ pc[p] = "login_wait"
  /\ resp[p] # << >>
  /\ \E dropped \in BOOLEAN :
       LET r == resp[p][1]
           err == IF r.err # NoErr /\ ~ dropped THEN r.err ELSE NoErr
       IN /\ Return(p, op[p], err, trace[p])
          /\ sess' = [sess EXCEPT ![p] = IF err = NoErr THEN <<r.val>> ELSE @]
  /\ resp' = [resp EXCEPT ![p] = << >>]
  /\ UNCHANGED <<registryVars, channelVars, kuser, members, calls, outerVars>>

\* Get running getUser in the caller's own goroutine instead of sending it.
GetDirect(p) ==
  \E n \in NameInputs :
    /\ Call(p)
    /\ IF n = ""
       THEN /\ Return(p, Op("Get", n, ""), InvalidArgument, << >>)
            /\ UNCHANGED <<channelVars, resp>>
       ELSE /\ running' = running \cup
                 {<<p, Action(p, "getUser", Arg(n, 0, FALSE, NilSocket, ""))>>}
            /\ nsub' = nsub + 1
            /\ UNCHANGED <<queue, ndone, resp>>
            /\ Goto(p, Op("Get", n, ""), "get_wait", <<"getUser">>)
    /\ UNCHANGED <<registryVars, sess, kuser, members, outerVars>>

\* func Get: the input check and the send of getUser.
Get(p) ==
  \E n \in NameInputs :
    /\ Call(p)
    /\ IF n = ""
       THEN /\ Return(p, Op("Get", n, ""), InvalidArgument, << >>)
            /\ UNCHANGED <<channelVars, resp>>
       ELSE /\ Execute(p, "getUser", Arg(n, 0, FALSE, NilSocket, ""))
            /\ Goto(p, Op("Get", n, ""), "get_wait", <<"getUser">>)
    /\ UNCHANGED <<registryVars, sess, kuser, members, outerVars>>

\* func Get, from the response on.
GetReturn(p) ==
  /\ pc[p] = "get_wait"
  /\ resp[p] # << >>
  /\ LET r == resp[p][1]
     IN /\ Return(p, op[p], r.err, trace[p])
        /\ sess' = [sess EXCEPT ![p] = IF r.err = NoErr THEN <<r.val>> ELSE @]
  /\ resp' = [resp EXCEPT ![p] = << >>]
  /\ UNCHANGED <<registryVars, channelVars, kuser, members, calls, outerVars>>

\* --------------------------------------------------- the room collaborator
\* Whether a call into package rooms succeeds: a collaborator that may
\* fail answers either way, one that is healthy always succeeds.
Answers == IF faulty THEN BOOLEAN ELSE {TRUE}

\* room.RemoveUser(name), when it succeeds
RemoveUser(m, room, name) == [m EXCEPT ![room] = @ \ {name}]

\* room.AddUser(&name, socket), when it succeeds
AddUser(m, room, name) == [m EXCEPT ![room] = @ \cup {name}]

\* ------------------------------------------------------ Join, Leave, LogOut
\* A Join that gives up when leaving the old room fails.
LeaveFailAborts(p, o, err, tr) == Return(p, o, err, tr)

\* Leave's error leaves Leave; inside Join the error is discarded and Join
\* goes on to its own room change.
LeaveFail(p, o, err, tr) ==
  IF o.kind = "Leave"
  THEN Return(p, o, err, tr)
  ELSE Goto(p, o, "join_submit", tr)

\* A Leave that goes on to its room change although RemoveUser failed.
LeaveRoomPressesOn(p, u, o) ==
  \E found \in Answers, gone \in Answers :
    IF ~ found
    THEN /\ LeaveFail(p, o, RoomNotFound, <<"rooms.Get:err">>)
         /\ UNCHANGED members
    ELSE IF ~ gone
    THEN /\ Goto(p, o, "leave_submit", <<"rooms.Get:ok", "RemoveUser:err">>)
         /\ UNCHANGED members
    ELSE /\ members' = RemoveUser(members, u.room, u.name)
         /\ Goto(p, o, "leave_submit", <<"rooms.Get:ok", "RemoveUser:ok">>)

\* func (u *User) Leave, for a user with a room, up to the send: rooms.Get,
\* then room.RemoveUser; either may fail.
LeaveRoom(p, u, o) ==
  \E found \in Answers, gone \in Answers :
    IF ~ found
    THEN /\ LeaveFail(p, o, RoomNotFound, <<"rooms.Get:err">>)
         /\ UNCHANGED members
    ELSE IF ~ gone
    THEN /\ LeaveFail(p, o, RemoveUserFailed, <<"rooms.Get:ok", "RemoveUser:err">>)
         /\ UNCHANGED members
    ELSE /\ members' = RemoveUser(members, u.room, u.name)
         /\ Goto(p, o, "leave_submit", <<"rooms.Get:ok", "RemoveUser:ok">>)

\* func (u *User) Join, up to its first call out: the room comparison, then
\* u.Leave() for a user in another room, or the send of changeUserRoomName.
Join(p) ==
  /\ sess[p] # << >>
  /\ \E room \in Rooms :
       LET u == sess[p][1]
           o == Op("Join", u.name, room)
       IN /\ Call(p)
          /\ IF u.room = room
             THEN /\ Return(p, o, AlreadyInRoom, << >>)
                  /\ UNCHANGED <<channelVars, resp, members>>
             ELSE IF u.room # ""
             THEN /\ LeaveRoom(p, u, o)
                  /\ UNCHANGED <<channelVars, resp>>
             ELSE /\ Execute(p, "changeUserRoomName",
                             Arg("", 0, FALSE, NilSocket, room))
                  /\ Goto(p, o, "join_wait", <<"changeUserRoomName">>)
                  /\ UNCHANGED members
  /\ UNCHANGED <<registryVars, sess, kuser, outerVars>>

\* func (u *User) Join: the send of changeUserRoomName after u.Leave().
JoinSubmit(p) ==
  /\ pc[p] = "join_submit"
  /\ Execute(p, "changeUserRoomName", Arg("", 0, FALSE, NilSocket, op[p].room))
  /\ Goto(p, op[p], "join_wait", trace[p] \o <<"changeUserRoomName">>)
  /\ UNCHANGED <<registryVars, sess, kuser, members, calls, outerVars>>

\* A Join that takes the room back out of the registry when AddUser fails.
JoinReturnRollback(p) ==
  /\ pc[p] = "join_wait"
  /\ resp[p] # << >>
  /\ LET r == resp[p][1]
         u == sess[p][1]
     IN IF r.err # NoErr
        THEN /\ Return(p, op[p], r.err, trace[p])
             /\ UNCHANGED <<members, users>>
        ELSE \E added \in Answers :
               IF added
               THEN /\ members' = AddUser(members, op[p].room, u.name)
                    /\ Return(p, op[p], NoErr, trace[p] \o <<"AddUser:ok">>)
                    /\ UNCHANGED users
               ELSE /\ Return(p, op[p], AddUserFailed, trace[p] \o <<"AddUser:err">>)
                    /\ users' = IF u.name \in DOMAIN users
                                THEN [users EXCEPT ![u.name].room = ""]
                                ELSE users
                    /\ UNCHANGED members
  /\ resp' = [resp EXCEPT ![p] = << >>]
  /\ UNCHANGED <<userCount, removed, channelVars, sess, kuser, calls, outerVars>>

\* func (u *User) Join, from the response on: the action's error, or
\* r.AddUser and its error.
JoinReturn(p) ==
  /\ pc[p] = "join_wait"
  /\ resp[p] # << >>
  /\ LET r == resp[p][1]
         u == sess[p][1]
     IN IF r.err # NoErr
        THEN /\ Return(p, op[p], r.err, trace[p])
             /\ UNCHANGED members
        ELSE \E added \in Answers :
               IF added
               THEN /\ members' = AddUser(members, op[p].room, u.name)
                    /\ Return(p, op[p], NoErr, trace[p] \o <<"AddUser:ok">>)
               ELSE /\ Return(p, op[p], AddUserFailed, trace[p] \o <<"AddUser:err">>)
                    /\ UNCHANGED members
  /\ resp' = [resp EXCEPT ![p] = << >>]
  /\ UNCHANGED <<registryVars, channelVars, sess, kuser, calls, outerVars>>

\* A Leave that resolves the room before it looks at the user's room.
LeaveLookupFirst(p) ==
  /\ sess[p] # << >>
  /\ LET u == sess[p][1]
         o == Op("Leave", u.name, "")
     IN /\ Call(p)
        /\ IF u.room # ""
           THEN LeaveRoom(p, u, o)
           ELSE /\ Return(p, o, NotInRoom, <<"rooms.Get:err">>)
                /\ UNCHANGED members
  /\ UNCHANGED <<registryVars, channelVars, sess, kuser, resp, outerVars>>

\* func (u *User) Leave, up to the send.
Leave(p) ==
  /\ sess[p] # << >>
  /\ LET u == sess[p][1]
         o == Op("Leave", u.name, "")
     IN /\ Call(p)
        /\ IF u.room # ""
           THEN LeaveRoom(p, u, o)
           ELSE /\ Return(p, o, NotInRoom, << >>)
                /\ UNCHANGED members
  /\ UNCHANGED <<registryVars, channelVars, sess, kuser, resp, outerVars>>

\* func (u *User) Leave: the send of changeUserRoomName(u, "").
LeaveSubmit(p) ==
  /\ pc[p] = "leave_submit"
  /\ Execute(p, "changeUserRoomName", NoArg)
  /\ Goto(p, op[p], "leave_wait", trace[p] \o <<"changeUserRoomName">>)
  /\ UNCHANGED <<registryVars, sess, kuser, members, calls, outerVars>>

\* func (u *User) Leave, from the response on; inside Join its result is
\* discarded.
LeaveReturn(p) ==
  /\ pc[p] = "leave_wait"
  /\ resp[p] # << >>
  /\ IF op[p].kind = "Leave"
     THEN Return(p, op[p], resp[p][1].err, trace[p])
     ELSE Goto(p, op[p], "join_submit", trace[p])
  /\ resp' = [resp EXCEPT ![p] = << >>]
  /\ UNCHANGED <<registryVars, channelVars, sess, kuser, members, calls, outerVars>>

\* A LogOut that gives up when the room cannot be resolved or left.
LogOutRoomStrict(p, u, o, tr) ==
  IF u.room = ""
  THEN /\ Goto(p, o, "logout_submit", tr)
       /\ UNCHANGED members
  ELSE \E found \in Answers, gone \in Answers :
         IF ~ found
         THEN /\ Return(p, o, RoomNotFound, tr \o <<"rooms.Get:err">>)
              /\ UNCHANGED members
         ELSE IF ~ gone
         THEN /\ Return(p, o, RemoveUserFailed,
                        tr \o <<"rooms.Get:ok", "RemoveUser:err">>)
              /\ UNCHANGED members
         ELSE /\ members' = RemoveUser(members, u.room, u.name)
              /\ Goto(p, o, "logout_submit",
                      tr \o <<"rooms.Get:ok", "RemoveUser:ok">>)

\* func (u *User) LogOut, up to the send: for a user with a room,
\* rooms.Get and, when it finds the room, room.RemoveUser, whose error is
\* ignored.  tr is what the call did so far.
LogOutRoom(p, u, o, tr) ==
  IF u.room = ""
  THEN /\ Goto(p, o, "logout_submit", tr)
       /\ UNCHANGED members
  ELSE \E found \in Answers, gone \in Answers :
         IF ~ found
         THEN /\ Goto(p, o, "logout_submit", tr \o <<"rooms.Get:err">>)
              /\ UNCHANGED members
         ELSE IF ~ gone
         THEN /\ Goto(p, o, "logout_submit",
                      tr \o <<"rooms.Get:ok", "RemoveUser:err">>)
              /\ UNCHANGED members
         ELSE /\ members' = RemoveUser(members, u.room, u.name)
              /\ Goto(p, o, "logout_submit",
                      tr \o <<"rooms.Get:ok", "RemoveUser:ok">>)

\* func (u *User) LogOut called on the caller's User value.
LogOut(p) ==
  /\ sess[p] # << >>
  /\ Call(p)
  /\ LogOutRoom(p, sess[p][1], Op("LogOut", sess[p][1].name, ""), << >>)
  /\ UNCHANGED <<registryVars, channelVars, sess, kuser, resp, outerVars>>

\* The User value LogOut runs on: Kick's local user, or the caller's own.
Receiver(p) == IF op[p].kind = "Kick" THEN kuser[p][1] ELSE sess[p][1]

\* func (u *User) LogOut: the send of logUserOut(u.name).
LogOutSubmit(p) ==
  /\ pc[p] = "logout_submit"
  /\ Execute(p, "logUserOut", Arg(Receiver(p).name, 0, FALSE, NilSocket, ""))
  /\ Goto(p, op[p], "logout_wait", trace[p] \o <<"logUserOut">>)
  /\ UNCHANGED <<registryVars, sess, kuser, members, calls, outerVars>>

\* func (u *User) LogOut, from the response on; it returns nothing, and
\* Kick then returns nil.
LogOutReturn(p) ==
  /\ pc[p] = "logout_wait"
  /\ resp[p] # << >>
  /\ Return(p, op[p], NoErr, trace[p])
  /\ resp' = [resp EXCEPT ![p] = << >>]
  /\ kuser' = [kuser EXCEPT ![p] = << >>]
  /\ UNCHANGED <<registryVars, channelVars, sess, members, calls, outerVars>>

\* func Kick, up to the send inside Get.
Kick(p) ==
  \E n \in NameInputs :
    /\ Call(p)
    /\ IF n = ""
       THEN /\ Return(p, Op("Kick", n, ""), InvalidArgument, << >>)
            /\ UNCHANGED <<channelVars, resp>>
       ELSE /\ Execute(p, "getUser", Arg(n, 0, FALSE, NilSocket, ""))
            /\ Goto(p, Op("Kick", n, ""), "kick_wait", <<"getUser">>)
    /\ UNCHANGED <<registryVars, sess, kuser, members, outerVars>>

\* A Kick that goes on to log out whatever Get returned.
KickGotAnyway(p) ==
  /\ pc[p] = "kick_wait"
  /\ resp[p] # << >>
  /\ kuser' = [kuser EXCEPT ![p] = <<resp[p][1].val>>]
  /\ LogOutRoom(p, resp[p][1].val, op[p], trace[p])
  /\ resp' = [resp EXCEPT ![p] = << >>]
  /\ UNCHANGED <<registryVars, channelVars, sess, calls, outerVars>>

\* func Kick, from Get's response on: Get's error, or user.LogOut() up to
\* its send.
KickGot(p) ==
  /\ pc[p] = "kick_wait"
  /\ resp[p] # << >>
  /\ LET r == resp[p][1]
     IN IF r.err # NoErr
        THEN /\ Return(p, op[p], r.err, trace[p])
             /\ UNCHANGED <<kuser, members>>
        ELSE /\ kuser' = [kuser EXCEPT ![p] = <<r.val>>]
             /\ LogOutRoom(p, r.val, op[p], trace[p])
  /\ resp' = [resp EXCEPT ![p] = << >>]
  /\ UNCHANGED <<registryVars, channelVars, sess, calls, outerVars>>

\* ------------------------------------------------------ start-up functions
\* A SetServerStarted that stores whatever it is given.
SetServerStartedPlain(val) ==
  /\ Len(startup) < MaxSettingsCalls
  /\ serverStarted' = val
  /\ startup' = Append(startup, [fn |-> "SetServerStarted", val |-> val])
  /\ UNCHANGED <<kickOnLogin, closed, faulty, registryVars, channelVars,
                 callerVars, members, calls>>

\* func SetServerStarted(val bool)
SetServerStarted(val) ==
  /\ Len(startup) < MaxSettingsCalls
  /\ serverStarted' = IF ~ serverStarted THEN val ELSE serverStarted
  /\ startup' = Append(startup, [fn |-> "SetServerStarted", val |-> val])
  /\ UNCHANGED <<kickOnLogin, closed, faulty, registryVars, channelVars,
                 callerVars, members, calls>>

\* func SettingsSet(kickDups bool)
SettingsSet(kickDups) ==
  /\ Len(startup) < MaxSettingsCalls
  /\ kickOnLogin' = IF ~ serverStarted THEN kickDups ELSE kickOnLogin
  /\ startup' = Append(startup, [fn |-> "SettingsSet", val |-> kickDups])
  /\ UNCHANGED <<serverStarted, closed, faulty, registryVars, channelVars,
                 callerVars, members, calls>>

\* The action channel is shut down: from now on it takes no action.  What
\* it accepted before is still run.
Shutdown ==
  /\ ~ closed
  /\ closed' = TRUE
  /\ UNCHANGED <<settingsVars, faulty, registryVars, channelVars, callerVars,
                 members, calls>>

\* ------------------------------------------------------- the specification
Next ==
  \/ WorkerPull
  \/ WorkerRun
  \/ \E p \in Callers :
       \/ Login(p)
       \/ LoginReturn(p)
       \/ Get(p)
       \/ GetReturn(p)
       \/ Join(p)
       \/ JoinSubmit(p)
       \/ JoinReturn(p)
       \/ Leave(p)
       \/ LeaveSubmit(p)
       \/ LeaveReturn(p)
       \/ LogOut(p)
       \/ LogOutSubmit(p)
       \/ LogOutReturn(p)
       \/ Kick(p)
       \/ KickGot(p)

Spec == Init /\ [][Next]_vars

\* The listener goroutine is always scheduled again: it pulls whenever an
\* action waits and completes the action it pulled.
FairSpec == Spec /\ WF_vars(WorkerPull) /\ WF_vars(WorkerRun)

\* The same callers over a room collaborator none of whose calls fails.
ReliableSpec == ReliableInit /\ [][Next]_vars

\* The start-up phase: any sequence of calls of the two settings functions.
SettingsNext ==
  \E v \in BOOLEAN :
    \/ SetServerStarted(v)
    \/ SettingsSet(v)

SettingsSpec == Init /\ [][SettingsNext]_vars

\* The callers over an action channel that may be shut down at any moment
\* (and a healthy room collaborator).
ShutdownNext == Next \/ Shutdown

ShutdownSpec == ReliableInit /\ [][ShutdownNext]_vars

\* ------------------------------------------------------------------ claims
\* The positions at which a caller is blocked in Execute.
WaitPcs == {"login_wait", "get_wait", "join_wait", "leave_wait", "logout_wait", "kick_wait"}

Waiting(p) == pc[p] \in WaitPcs /\ resp[p] = << >>

\* C2: at most one registry action is being executed at any time, and it is
\* the listener that executes it: a second action starts only after the
\* running one has completed, however many callers have submitted.
C2_OneActionAtATime ==
  /\ Cardinality(running) <= 1
  /\ \A r \in running : r[1] = Worker

\* C2's case: an action is running while another caller's action waits in
\* the queue.
C2_Witness ==
  /\ Cardinality(running) = 1
  /\ Len(queue) >= 1
  /\ \A p \in Callers : Waiting(p)

\* C3: actions run in the order in which they were accepted.  Tickets are
\* handed out in acceptance order; the actions completed so far are tickets
\* 1..ndone, the action being run (if any) is ticket ndone+1, and the queue
\* holds the following tickets in order: an action starts only once every
\* action accepted before it has completed.
C3_FirstAcceptedFirstRun ==
  /\ \A r \in running : r[2].tk = ndone + 1
  /\ \A i \in 1..Len(queue) : queue[i].tk = ndone + Cardinality(running) + i
  /\ nsub = ndone + Cardinality(running) + Len(queue)

\* C3's case: two actions of different callers wait in the queue after an
\* earlier action has completed.
C3_Witness ==
  /\ Len(queue) = 2
  /\ queue[1].by # queue[2].by
  /\ ndone >= 1

\* C4: under a fair listener every caller blocked in Execute receives the
\* response of the action it submitted (so the action has been run),
\* whatever calls of the other callers are in flight.
C4_EveryCallerUnblocked ==
  \A p \in Callers : Waiting(p) ~> (resp[p] # << >>)

\* C4's case: a Kick has been answered for its second action (logUserOut)
\* while the other caller is blocked on an action of its own.
C4_Witness ==
  \E p, q \in Callers :
    /\ p # q
    /\ op[p].kind = "Kick"
    /\ pc[p] = "logout_wait"
    /\ resp[p] # << >>
    /\ Waiting(q)

\* Action r (a pair of running) completes in this step.
Completes(r) == r \in running /\ r \notin running'

\* Caller p issues a call of the given kind in this step.
Issues(p, kind) == calls'[p] = calls[p] + 1 /\ op'[p].kind = kind

\* Caller p has returned from a call of the given kind.
Returned(p, kind) == pc[p] = "idle" /\ op[p].kind = kind

\* The step sends nothing to the action channel.
NothingSent == queue' = queue /\ running' = running /\ nsub' = nsub

\* The record a login with the given name, databaseID, guest flag and
\* socket is to create.
FreshUser(name, databaseID, isGuest, socket) ==
  [name |-> name, databaseID |-> databaseID, isGuest |-> isGuest, room |-> "",
   status |-> StatusAvailable, socket |-> socket]

\* C1: when the only two calls issued so far are accepted Logins of one
\* name by two callers, exactly one of them returns success and the other
\* AlreadyLoggedIn, and the registry holds the one entry for the name, with
\* the fields the successful call was given.
C1_ExactlyOneLoginSucceeds ==
  \A p, q \in Callers :
    ( /\ p # q
      /\ Issued = 2
      /\ Returned(p, "Login") /\ Returned(q, "Login")
      /\ op[p].name = op[q].name
      /\ ret[p] # InvalidArgument /\ ret[q] # InvalidArgument )
    => /\ {ret[p], ret[q]} = {NoErr, AlreadyLoggedIn}
       /\ op[p].name \in DOMAIN users
       /\ \E w \in {p, q} : ret[w] = NoErr /\ sess[w] = <<users[op[p].name]>>

\* C5 as stated: a login of a name that was logged out before, run while
\* the name has no entry, stores and returns a record with room "", status
\* Available and the databaseID, guest flag and socket supplied to the call,
\* and Login hands that record to its caller with no error.
C5_ReloginSuppliedFields ==
  [][ /\ \A r \in running :
           ( /\ Completes(r)
             /\ r[2].fn = "loginUser"
             /\ r[2].arg.name \notin DOMAIN users
             /\ removed[r[2].arg.name] # << >> )
           => LET o == op[r[2].by]
                  u == FreshUser(o.name, o.databaseID, o.isGuest, o.socket)
              IN /\ users'[o.name] = u
                 /\ resp'[r[2].by] = <<[val |-> u, err |-> NoErr]>>
      /\ \A p \in Callers :
           ( /\ pc[p] = "login_wait" /\ pc'[p] = "idle"
             /\ resp[p][1].err = NoErr )
           => ret'[p] = NoErr /\ sess'[p] = <<resp[p][1].val>>
    ]_vars

\* C5, amended: the same, with the databaseID -1 for a guest whatever
\* databaseID was supplied, and the supplied databaseID otherwise.  The
\* record owes nothing to the one removed before.
C5_ReloginFresh ==
  [][ /\ \A r \in running :
           ( /\ Completes(r)
             /\ r[2].fn = "loginUser"
             /\ r[2].arg.name \notin DOMAIN users
             /\ removed[r[2].arg.name] # << >> )
           => LET o == op[r[2].by]
                  u == FreshUser(o.name, IF o.isGuest THEN -1 ELSE o.databaseID,
                                 o.isGuest, o.socket)
              IN /\ users'[o.name] = u
                 /\ resp'[r[2].by] = <<[val |-> u, err |-> NoErr]>>
      /\ \A p \in Callers :
           ( /\ pc[p] = "login_wait" /\ pc'[p] = "idle"
             /\ resp[p][1].err = NoErr )
           => ret'[p] = NoErr /\ sess'[p] = <<resp[p][1].val>>
    ]_vars

\* C5's case: a caller has returned from a successful login of a name whose
\* earlier session was removed while it was in a room, and holds a record
\* with no room and another socket than the removed one.
C5_Witness ==
  \E p \in Callers :
    /\ Returned(p, "Login")
    /\ ret[p] = NoErr
    /\ removed[op[p].name] # << >>
    /\ removed[op[p].name][1].room # ""
    /\ sess[p] # << >>
    /\ sess[p][1].name = op[p].name
    /\ sess[p][1].room = ""
    /\ sess[p][1].socket # removed[op[p].name][1].socket

\* C6: getUser answers NotLoggedIn (with the zero User) exactly when the
\* name has no entry as it runs, and otherwise a copy of the entry with no
\* error; it leaves the map and the counter alone; Get returns that answer.
C6_GetSnapshot ==
  [][ /\ \A r \in running :
           (Completes(r) /\ r[2].fn = "getUser")
           => /\ resp'[r[2].by] =
                   IF r[2].arg.name \in DOMAIN users
                   THEN <<[val |-> users[r[2].arg.name], err |-> NoErr]>>
                   ELSE <<[val |-> ZeroUser, err |-> NotLoggedIn]>>
              /\ users' = users
              /\ userCount' = userCount
      /\ \A p \in Callers :
           (pc[p] = "get_wait" /\ pc'[p] = "idle")
           => /\ ret'[p] = resp[p][1].err
              /\ resp[p][1].err = NoErr => sess'[p] = <<resp[p][1].val>>
              /\ users' = users
    ]_vars

\* C6's case: a Get of a name has returned NotLoggedIn after the name's
\* session had been removed and before any new login of the name.
C6_Witness ==
  \E p \in Callers :
    /\ Returned(p, "Get")
    /\ ret[p] = NotLoggedIn
    /\ removed[op[p].name] # << >>
    /\ op[p].name \notin DOMAIN users

\* C7: a room change that finds the user logged in sets the room in the
\* registry entry and in the caller's User value; a Join that returns
\* success leaves the caller's User value with the target room; and a Join
\* on a User value whose room is the target room returns AlreadyInRoom
\* at once: nothing is sent, no collaborator call is made, and registry and
\* membership are unchanged.
C7_JoinSameRoom ==
  [][ /\ \A r \in running :
           ( /\ Completes(r)
             /\ r[2].fn = "changeUserRoomName"
             /\ sess[r[2].by][1].name \in DOMAIN users )
           => /\ users'[sess[r[2].by][1].name].room = r[2].arg.room
              /\ sess'[r[2].by][1].room = r[2].arg.room
      /\ \A p \in Callers :
           (pc[p] = "join_wait" /\ pc'[p] = "idle" /\ ret'[p] = NoErr)
           => sess'[p][1].room = op[p].room
      /\ \A p \in Callers :
           (Issues(p, "Join") /\ sess[p][1].room = op'[p].room)
           => /\ pc'[p] = "idle"
              /\ ret'[p] = AlreadyInRoom
              /\ trace'[p] = << >>
              /\ NothingSent
              /\ users' = users
              /\ members' = members
    ]_vars

\* C7's case: a second Join into the room returned AlreadyInRoom while the
\* registry shows the room and the user is a member of it.
C7_Witness ==
  \E p \in Callers :
    /\ Returned(p, "Join")
    /\ ret[p] = AlreadyInRoom
    /\ op[p].name \in DOMAIN users
    /\ users[op[p].name].room = op[p].room
    /\ op[p].name \in members[op[p].room]

\* C8: a Leave on a User value with no room returns NotInRoom at once: no
\* room lookup, no RemoveUser, nothing sent, registry and membership
\* unchanged.
C8_LeaveNoRoom ==
  [][ \A p \in Callers :
        (Issues(p, "Leave") /\ sess[p][1].room = "")
        => /\ pc'[p] = "idle"
           /\ ret'[p] = NotInRoom
           /\ trace'[p] = << >>
           /\ NothingSent
           /\ users' = users
           /\ members' = members
    ]_vars

\* C8's case: a logged-in user with no room has called Leave and got
\* NotInRoom.
C8_Witness ==
  \E p \in Callers :
    /\ Returned(p, "Leave")
    /\ ret[p] = NotInRoom
    /\ op[p].name \in DOMAIN users
    /\ users[op[p].name].room = ""

\* Whether event e occurs in trace t.
Has(t, e) == \E i \in 1..Len(t) : t[i] = e

\* C9: Kick's Get step answers NotLoggedIn exactly when the name has no
\* entry and changes nothing; on that answer Kick returns NotLoggedIn
\* having sent nothing more and touched no room; on any other answer it
\* goes on to log the user out, sends logUserOut for the name, after whose
\* run the name has no entry, and returns no error.
C9_Kick ==
  [][ /\ \A r \in running :
           (Completes(r) /\ r[2].fn = "getUser" /\ op[r[2].by].kind = "Kick")
           => /\ (resp'[r[2].by][1].err = NotLoggedIn)
                   <=> (op[r[2].by].name \notin DOMAIN users)
              /\ resp'[r[2].by][1].err \in {NoErr, NotLoggedIn}
              /\ users' = users
      /\ \A p \in Callers :
           (pc[p] = "kick_wait" /\ pc'[p] # "kick_wait")
           => IF resp[p][1].err # NoErr
              THEN /\ pc'[p] = "idle"
                   /\ ret'[p] = NotLoggedIn
                   /\ trace'[p] = <<"getUser">>
                   /\ NothingSent
                   /\ users' = users
                   /\ members' = members
              ELSE pc'[p] = "logout_submit"
      /\ \A p \in Callers :
           (op[p].kind = "Kick" /\ pc[p] = "logout_submit" /\ pc'[p] # "logout_submit")
           => /\ pc'[p] = "logout_wait"
              /\ Len(queue') = Len(queue) + 1
              /\ queue'[Len(queue')].fn = "logUserOut"
              /\ queue'[Len(queue')].arg.name = op[p].name
      /\ \A r \in running :
           (Completes(r) /\ r[2].fn = "logUserOut")
           => r[2].arg.name \notin DOMAIN users'
      /\ \A p \in Callers :
           (op[p].kind = "Kick" /\ pc[p] = "logout_wait" /\ pc'[p] # "logout_wait")
           => pc'[p] = "idle" /\ ret'[p] = NoErr
    ]_vars

\* C9's case: one caller's Kick of a logged-in name has returned success
\* and the name's entry is gone, and the other caller's Kick of a name with
\* no entry has returned NotLoggedIn.
C9_Witness ==
  \E p, q \in Callers :
    /\ Returned(p, "Kick")
    /\ ret[p] = NoErr
    /\ removed[op[p].name] # << >>
    /\ op[p].name \notin DOMAIN users
    /\ Returned(q, "Kick")
    /\ ret[q] = NotLoggedIn

\* C10: LogOut never returns early and never reports an error: whatever
\* the room lookup and RemoveUser answer, the call goes on to send
\* logUserOut for the session's name; it returns only after that action has
\* run, which leaves the name without an entry; and when the lookup found
\* the room, RemoveUser was called before logUserOut was sent.
C10_LogOutAlwaysRemoves ==
  [][ /\ \A p \in Callers :
           Issues(p, "LogOut")
           => /\ pc'[p] = "logout_submit"
              /\ sess[p][1].room # ""
                   => (Has(trace'[p], "rooms.Get:ok") \/ Has(trace'[p], "rooms.Get:err"))
              /\ Has(trace'[p], "rooms.Get:ok")
                   => (Has(trace'[p], "RemoveUser:ok") \/ Has(trace'[p], "RemoveUser:err"))
              /\ ~ Has(trace'[p], "logUserOut")
      /\ \A p \in Callers :
           (op[p].kind = "LogOut" /\ pc[p] = "logout_submit" /\ pc'[p] # "logout_submit")
           => /\ pc'[p] = "logout_wait"
              /\ Len(queue') = Len(queue) + 1
              /\ queue'[Len(queue')].fn = "logUserOut"
              /\ queue'[Len(queue')].arg.name = sess[p][1].name
      /\ \A r \in running :
           (Completes(r) /\ r[2].fn = "logUserOut")
           => /\ r[2].arg.name \notin DOMAIN users'
              /\ resp'[r[2].by][1].err = NoErr
      /\ \A p \in Callers :
           (op[p].kind = "LogOut" /\ pc[p] = "logout_wait" /\ pc'[p] # "logout_wait")
           => pc'[p] = "idle" /\ ret'[p] = NoErr
      /\ \A p \in Callers :
           (op'[p].kind = "LogOut" /\ pc'[p] = "idle" /\ ~ Returned(p, "LogOut"))
           => pc[p] = "logout_wait"
    ]_vars

\* C10's case: a LogOut of a user in a room has returned after a failed
\* room lookup, and the name's entry, which showed that room, is gone.
C10_Witness ==
  \E p \in Callers :
    /\ Returned(p, "LogOut")
    /\ ret[p] = NoErr
    /\ trace[p] = <<"rooms.Get:err", "logUserOut">>
    /\ removed[op[p].name] # << >>
    /\ removed[op[p].name][1].room # ""
    /\ op[p].name \notin DOMAIN users

\* C11: the registry's logUserOut(name) answers without an error; if the
\* name has an entry the entry is removed, otherwise the map is unchanged;
\* every other entry and the counter are as before; and run once more in
\* the state it leaves, it leaves that state again.
C11_LogoutIdempotent ==
  [][ \A r \in running :
        (Completes(r) /\ r[2].fn = "logUserOut")
        => LET n == r[2].arg.name
           IN /\ resp'[r[2].by] = <<[val |-> ZeroUser, err |-> NoErr]>>
              /\ n \notin DOMAIN users'
              /\ DOMAIN users' = (DOMAIN users) \ {n}
              /\ \A m \in DOMAIN users' : users'[m] = users[m]
              /\ n \notin DOMAIN users => users' = users
              /\ userCount' = userCount
              /\ (logUserOut(r[2]).users)' = users'
              /\ (logUserOut(r[2]).userCount)' = userCount'
    ]_vars

\* C11's case: two callers holding the one session of a name have both
\* logged it out, so the second logUserOut ran on a name with no entry.
C11_Witness ==
  \E p, q \in Callers :
    /\ p # q
    /\ Returned(p, "LogOut") /\ Returned(q, "LogOut")
    /\ op[p].name = op[q].name
    /\ ret[p] = NoErr /\ ret[q] = NoErr
    /\ userCount = 1
    /\ op[p].name \notin DOMAIN users

\* C12: a Login that passes the input checks sends loginUser with the
\* name, guest flag and socket supplied and with databaseID -1 for a guest
\* and the supplied databaseID otherwise; a loginUser that finds no entry
\* for the name stores a record with exactly those fields, room "" and
\* status Available, and answers with a copy of it and no error; and Login
\* returns that copy with no error.
C12_LoginFields ==
  [][ /\ \A p \in Callers :
           (Issues(p, "Login") /\ pc'[p] = "login_wait")
           => LET o == op'[p]
              IN /\ Len(queue') = Len(queue) + 1
                 /\ queue'[Len(queue')].by = p
                 /\ queue'[Len(queue')].fn = "loginUser"
                 /\ queue'[Len(queue')].arg =
                      Arg(o.name, IF o.isGuest THEN -1 ELSE o.databaseID,
                          o.isGuest, o.socket, "")
      /\ \A r \in running :
           ( /\ Completes(r)
             /\ r[2].fn = "loginUser"
             /\ r[2].arg.name \notin DOMAIN users )
           => LET o == op[r[2].by]
                  u == [name |-> o.name,
                        databaseID |-> IF o.isGuest THEN -1 ELSE o.databaseID,
                        isGuest |-> o.isGuest, room |-> "",
                        status |-> StatusAvailable, socket |-> o.socket]
              IN /\ DOMAIN users' = (DOMAIN users) \cup {o.name}
                 /\ users'[o.name] = u
                 /\ resp'[r[2].by] = <<[val |-> u, err |-> NoErr]>>
      /\ \A p \in Callers :
           ( /\ pc[p] = "login_wait" /\ pc'[p] = "idle"
             /\ resp[p][1].err = NoErr )
           => /\ ret'[p] = NoErr
              /\ sess'[p] = <<resp[p][1].val>>
              /\ users' = users
    ]_vars

\* C12's case: a guest Login that supplied databaseID 7 has returned with
\* no error, and the stored and the returned record show databaseID -1.
C12_Witness ==
  \E p \in Callers :
    /\ Returned(p, "Login")
    /\ ret[p] = NoErr
    /\ op[p].isGuest
    /\ op[p].databaseID = 7
    /\ op[p].name \in DOMAIN users
    /\ users[op[p].name] = sess[p][1]
    /\ sess[p][1].databaseID = -1
    /\ sess[p][1].isGuest
    /\ sess[p][1].socket = op[p].socket

\* A loginUser that finds no entry for its name completes in this step.
Creates(r) ==
  Completes(r) /\ r[2].fn = "loginUser" /\ r[2].arg.name \notin DOMAIN users

\* C13: userCount never decreases.  It grows, by exactly one, in exactly
\* the steps in which a loginUser that finds no entry for its name completes
\* (the steps that create a session, and the only steps that add an entry);
\* every other step leaves it alone: a Login rejected by the input checks
\* returns InvalidArgument having sent nothing, and a loginUser that finds
\* the name, getUser, changeUserRoomName and logUserOut (from LogOut or
\* Kick) do not touch it.  It is never below the number of sessions known
\* to have existed: the entries plus the names with a removed session.
C13_CounterCountsCreations ==
  [][ /\ userCount' \in {userCount, userCount + 1}
      /\ (userCount' = userCount + 1) <=> (\E r \in running : Creates(r))
      /\ (userCount' = userCount + 1)
           => Cardinality(DOMAIN users') = Cardinality(DOMAIN users) + 1
      /\ ~ (DOMAIN users' \subseteq DOMAIN users) => userCount' = userCount + 1
      /\ \A p \in Callers :
           ( /\ Issues(p, "Login")
             /\ \/ op'[p].name = ""
                \/ op'[p].databaseID < -1
                \/ op'[p].socket = NilSocket )
           => /\ pc'[p] = "idle"
              /\ ret'[p] = InvalidArgument
              /\ NothingSent
              /\ userCount' = userCount
              /\ users' = users
      /\ \A r \in running :
           (Completes(r) /\ ~ Creates(r)) => userCount' = userCount
      /\ userCount' >= Cardinality(DOMAIN users')
                         + Cardinality({n \in Names : removed'[n] # << >>})
    ]_vars

\* C13's case: a name was logged in, logged out and logged in again, a
\* Login was rejected as InvalidArgument, and the counter shows the two
\* sessions created while the registry holds one.
C13_Witness ==
  \E p \in Callers :
    /\ Returned(p, "Login")
    /\ ret[p] = InvalidArgument
    /\ userCount = 2
    /\ DOMAIN users = {"a"}
    /\ removed["a"] # << >>

\* The call of a start-up function made in this step.
Made == startup'[Len(startup')]

\* C14: while serverStarted is false, SettingsSet(v) sets kickOnLogin to v
\* and SetServerStarted(v) sets serverStarted to v; once serverStarted is
\* true, no call of either function, with either argument, changes
\* serverStarted or kickOnLogin.
C14_StartedLatch ==
  [][ /\ Len(startup') = Len(startup) + 1
      /\ serverStarted => (serverStarted' /\ kickOnLogin' = kickOnLogin)
      /\ (~ serverStarted /\ Made.fn = "SettingsSet")
           => (kickOnLogin' = Made.val /\ ~ serverStarted')
      /\ (~ serverStarted /\ Made.fn = "SetServerStarted")
           => (serverStarted' = Made.val /\ kickOnLogin' = kickOnLogin)
    ]_vars

\* C14's case: SettingsSet(true), SetServerStarted(true), then
\* SetServerStarted(false) and SettingsSet(false), after which the flag is
\* still set and kickOnLogin still true.
C14_Witness ==
  /\ startup = << [fn |-> "SettingsSet", val |-> TRUE],
                  [fn |-> "SetServerStarted", val |-> TRUE],
                  [fn |-> "SetServerStarted", val |-> FALSE],
                  [fn |-> "SettingsSet", val |-> FALSE] >>
  /\ serverStarted
  /\ kickOnLogin

\* C15: a caller whose Execute meets a shut-down action channel is not
\* left waiting: the channel takes nothing, the registry is as before, and
\* the failure is there for the caller at once; and the API call (Login,
\* Get, Join, Leave, LogOut or Kick) in which that happened returns
\* ExecutorUnavailable.
C15_UnavailableReturned ==
  [][ /\ \A p \in Callers :
           (closed /\ pc[p] \notin WaitPcs /\ pc'[p] \in WaitPcs)
           => /\ resp'[p] = <<Unavailable>>
              /\ queue' = queue /\ running' = running
              /\ users' = users /\ userCount' = userCount
      /\ \A p \in Callers :
           (pc[p] \in WaitPcs /\ resp[p] = <<Unavailable>> /\ pc'[p] = "idle")
           => /\ ret'[p] = ExecutorUnavailable
              /\ users' = users /\ userCount' = userCount
    ]_vars

\* C16: Join sends changeUserRoomName for the target room before it calls
\* AddUser: when Join enters its wait no AddUser has been called, and AddUser
\* is called only in the step that follows the action's answer, and only on
\* an answer without error.  When AddUser fails, that step returns AddUser's
\* error, sends nothing and leaves the registry, the caller's User value
\* and the membership as they are: the registry room set by the action is
\* not taken back.  With no other caller active, the failed Join leaves the
\* registry room and the caller's room equal to the target room.
C16_JoinNoRollback ==
  [][ /\ \A p \in Callers :
           (pc'[p] = "join_wait" /\ pc[p] # "join_wait")
           => /\ ~ Has(trace'[p], "AddUser:ok") /\ ~ Has(trace'[p], "AddUser:err")
              /\ trace'[p][Len(trace'[p])] = "changeUserRoomName"
              /\ queue'[Len(queue')].by = p
              /\ queue'[Len(queue')].fn = "changeUserRoomName"
              /\ queue'[Len(queue')].arg.room = op'[p].room
      /\ \A p \in Callers :
           (pc[p] = "join_wait" /\ pc'[p] = "idle")
           => IF resp[p][1].err # NoErr
              THEN trace'[p] = trace[p] /\ members' = members
              ELSE \/ /\ trace'[p] = trace[p] \o <<"AddUser:ok">>
                      /\ ret'[p] = NoErr
                   \/ /\ trace'[p] = trace[p] \o <<"AddUser:err">>
                      /\ ret'[p] = AddUserFailed
                      /\ NothingSent
                      /\ users' = users
                      /\ sess' = sess
                      /\ members' = members
      /\ \A p \in Callers :
           ( /\ Returned(p, "Join")' /\ ret'[p] = AddUserFailed
             /\ \A q \in Callers \ {p} : calls'[q] = 0 )
           => /\ op'[p].name \in DOMAIN users'
              /\ users'[op'[p].name].room = op'[p].room
              /\ sess'[p][1].room = op'[p].room
    ]_vars

\* C16's case: a Join has returned AddUser's error; the registry and the
\* caller's User value show the target room, of which the user is no member.
C16_Witness ==
  \E p \in Callers :
    /\ Returned(p, "Join")
    /\ ret[p] = AddUserFailed
    /\ op[p].name \in DOMAIN users
    /\ users[op[p].name].room = op[p].room
    /\ sess[p][1].room = op[p].room
    /\ op[p].name \notin members[op[p].room]

\* The action caller p sent in this step.
Sent(p, fn, room) ==
  /\ Len(queue') = Len(queue) + 1
  /\ queue'[Len(queue')].by = p
  /\ queue'[Len(queue')].fn = fn
  /\ queue'[Len(queue')].arg.room = room

\* C17: a Join on a User value whose room is neither "" nor the target
\* room starts with Leave's steps for the old room (room lookup, then
\* RemoveUser) before anything is sent; whether the lookup fails, RemoveUser
\* fails or Leave goes on to its own room change and whatever that answers,
\* Join then sends changeUserRoomName for the target room and, on its
\* success, calls AddUser.  When every step has succeeded (and no other
\* caller is active) the user is a member of the target room and of no
\* other room, and the registry room is the target room.
C17_JoinSwitchesRooms ==
  [][ /\ \A p \in Callers :
           ( /\ Issues(p, "Join")
             /\ sess[p][1].room \notin {"", op'[p].room} )
           => /\ NothingSent
              /\ users' = users
              /\ \/ /\ trace'[p] = <<"rooms.Get:err">>
                    /\ pc'[p] = "join_submit"
                    /\ members' = members
                 \/ /\ trace'[p] = <<"rooms.Get:ok", "RemoveUser:err">>
                    /\ pc'[p] = "join_submit"
                    /\ members' = members
                 \/ /\ trace'[p] = <<"rooms.Get:ok", "RemoveUser:ok">>
                    /\ pc'[p] = "leave_submit"
                    /\ members' = [members EXCEPT ![sess[p][1].room] =
                                                     @ \ {sess[p][1].name}]
      /\ \A p \in Callers :
           (op[p].kind = "Join" /\ pc[p] = "leave_submit" /\ pc'[p] # "leave_submit")
           => pc'[p] = "leave_wait" /\ Sent(p, "changeUserRoomName", "")
      /\ \A p \in Callers :
           (op[p].kind = "Join" /\ pc[p] = "leave_wait" /\ pc'[p] # "leave_wait")
           => pc'[p] = "join_submit"
      /\ \A p \in Callers :
           (pc[p] = "join_submit" /\ pc'[p] # "join_submit")
           => pc'[p] = "join_wait" /\ Sent(p, "changeUserRoomName", op[p].room)
      /\ \A p \in Callers :
           (pc[p] = "join_wait" /\ pc'[p] = "idle" /\ resp[p][1].err = NoErr)
           => \/ trace'[p] = trace[p] \o <<"AddUser:ok">>
              \/ trace'[p] = trace[p] \o <<"AddUser:err">>
      /\ \A p \in Callers :
           ( /\ Returned(p, "Join")' /\ ret'[p] = NoErr
             /\ Has(trace'[p], "RemoveUser:ok")
             /\ \A q \in Callers \ {p} : calls'[q] = 0 )
           => /\ op'[p].name \in DOMAIN users'
              /\ users'[op'[p].name].room = op'[p].room
              /\ op'[p].name \in members'[op'[p].room]
              /\ \A r \in Rooms \ {op'[p].room} : op'[p].name \notin members'[r]
    ]_vars

\* C17's case: a Join from one room into another has returned with every
\* step done and successful; the user is a member of the target room only
\* and the registry shows the target room.
C17_Witness ==
  \E p \in Callers :
    /\ Returned(p, "Join")
    /\ ret[p] = NoErr
    /\ trace[p] = <<"rooms.Get:ok", "RemoveUser:ok", "changeUserRoomName",
                    "changeUserRoomName", "AddUser:ok">>
    /\ op[p].name \in DOMAIN users
    /\ users[op[p].name].room = op[p].room
    /\ op[p].name \in members[op[p].room]
    /\ \A r \in Rooms \ {op[p].room} : op[p].name \notin members[r]

\* C18: a Leave on a User value with a room looks the room up and calls
\* RemoveUser before anything is sent.  If the lookup fails, or RemoveUser
\* fails, Leave returns that error in the same step: nothing is sent, and
\* registry and membership are unchanged.  If RemoveUser succeeds, Leave
\* sends changeUserRoomName with room ""; run on a name that has an entry,
\* that action sets the entry's room to "" and changes nothing else (run on
\* a name without entry it answers NotLoggedIn and changes nothing); Leave
\* returns the action's answer.
C18_LeaveFrame ==
  [][ /\ \A p \in Callers :
           (Issues(p, "Leave") /\ sess[p][1].room # "")
           => /\ NothingSent
              /\ users' = users
              /\ \/ /\ trace'[p] = <<"rooms.Get:err">>
                    /\ pc'[p] = "idle"
                    /\ ret'[p] = RoomNotFound
                    /\ members' = members
                 \/ /\ trace'[p] = <<"rooms.Get:ok", "RemoveUser:err">>
                    /\ pc'[p] = "idle"
                    /\ ret'[p] = RemoveUserFailed
                    /\ members' = members
                 \/ /\ trace'[p] = <<"rooms.Get:ok", "RemoveUser:ok">>
                    /\ pc'[p] = "leave_submit"
                    /\ members' = [members EXCEPT ![sess[p][1].room] =
                                                     @ \ {sess[p][1].name}]
      /\ \A p \in Callers :
           (op[p].kind = "Leave" /\ pc[p] = "leave_submit" /\ pc'[p] # "leave_submit")
           => pc'[p] = "leave_wait" /\ Sent(p, "changeUserRoomName", "")
      /\ \A r \in running :
           ( /\ Completes(r)
             /\ r[2].fn = "changeUserRoomName"
             /\ op[r[2].by].kind = "Leave" )
           => LET n == sess[r[2].by][1].name
              IN IF n \in DOMAIN users
                 THEN /\ users' = [users EXCEPT ![n].room = ""]
                      /\ resp'[r[2].by][1].err = NoErr
                 ELSE /\ users' = users
                      /\ resp'[r[2].by][1].err = NotLoggedIn
      /\ \A p \in Callers :
           (op[p].kind = "Leave" /\ pc[p] = "leave_wait" /\ pc'[p] # "leave_wait")
           => /\ pc'[p] = "idle"
              /\ ret'[p] = resp[p][1].err
              /\ users' = users
    ]_vars

\* C18's case: a Leave has returned RemoveUser's error; the registry still
\* shows the room, which the user is still a member of.
C18_Witness ==
  \E p \in Callers :
    /\ Returned(p, "Leave")
    /\ ret[p] = RemoveUserFailed
    /\ op[p].name \in DOMAIN users
    /\ users[op[p].name].room # ""
    /\ users[op[p].name].room = sess[p][1].room
    /\ op[p].name \in members[sess[p][1].room]

\* What C19 says of the room change itself and of Join's use of it: run
\* for a User value whose name has no entry, changeUserRoomName answers
\* NotLoggedIn and leaves the map (no new entry, every entry as it was) and
\* the counter alone; otherwise it sets the room of that name's entry and
\* changes nothing else in the map; and a Join whose room change answered
\* NotLoggedIn returns NotLoggedIn without calling AddUser.
ChangeRoomStep ==
  /\ \A r \in running :
        (Completes(r) /\ r[2].fn = "changeUserRoomName")
        => LET n == sess[r[2].by][1].name
           IN /\ userCount' = userCount
              /\ IF n \notin DOMAIN users
                 THEN /\ users' = users
                      /\ resp'[r[2].by] = <<[val |-> ZeroUser, err |-> NotLoggedIn]>>
                 ELSE /\ DOMAIN users' = DOMAIN users
                      /\ \A m \in DOMAIN users \ {n} : users'[m] = users[m]
                      /\ users'[n] = [users[n] EXCEPT !.room = r[2].arg.room]
                      /\ resp'[r[2].by] = <<[val |-> ZeroUser, err |-> NoErr]>>
  /\ \A p \in Callers :
        (pc[p] = "join_wait" /\ pc'[p] = "idle" /\ resp[p][1].err = NotLoggedIn)
        => /\ ret'[p] = NotLoggedIn
           /\ trace'[p] = trace[p]
           /\ ~ Has(trace'[p], "AddUser:ok") /\ ~ Has(trace'[p], "AddUser:err")
           /\ members' = members
           /\ users' = users

\* Caller p, the only caller to have called anything, is back from a Join
\* and the name of its User value has no entry: the Join was made by a
\* logged-out session.
LoggedOutJoinDone(p) ==
  /\ Returned(p, "Join")
  /\ op[p].name \notin DOMAIN users
  /\ \A q \in Callers \ {p} : calls[q] = 0

\* C19 as stated: the above, and every Join by a logged-out session returns
\* NotLoggedIn, having never called AddUser.
C19_LoggedOutJoinNotLoggedIn ==
  [][ /\ ChangeRoomStep
      /\ \A p \in Callers :
           LoggedOutJoinDone(p)'
           => /\ ret'[p] = NotLoggedIn
              /\ ~ Has(trace'[p], "AddUser:ok") /\ ~ Has(trace'[p], "AddUser:err")
    ]_vars

\* C19, amended: the above, and a Join by a logged-out session never calls
\* AddUser and returns NotLoggedIn unless the target room is the room its
\* User value still shows, in which case it returns AlreadyInRoom before
\* anything is sent.
C19_LoggedOutJoin ==
  [][ /\ ChangeRoomStep
      /\ \A p \in Callers :
           LoggedOutJoinDone(p)'
           => /\ ~ Has(trace'[p], "AddUser:ok") /\ ~ Has(trace'[p], "AddUser:err")
              /\ IF ret'[p] = AlreadyInRoom
                 THEN sess'[p][1].room = op'[p].room /\ trace'[p] = << >>
                 ELSE ret'[p] = NotLoggedIn /\ sess'[p][1].room # op'[p].room
    ]_vars

\* C19's case: a Join by a session that was logged out has returned
\* NotLoggedIn without AddUser; the name has no entry and is in no room,
\* and the other name's entry is in place.
C19_Witness ==
  \E p \in Callers :
    /\ Returned(p, "Join")
    /\ ret[p] = NotLoggedIn
    /\ trace[p] = <<"changeUserRoomName">>
    /\ op[p].name \in Names
    /\ removed[op[p].name] # << >>
    /\ DOMAIN users = Names \ {op[p].name}
    /\ \A r \in Rooms : op[p].name \notin members[r]

\* No API call is in progress and the action channel is empty.
Quiescent ==
  /\ \A p \in Callers : pc[p] = "idle"
  /\ queue = << >>
  /\ running = {}

\* C20: over a room collaborator none of whose calls fails, whenever no
\* operation is in flight every logged-in name is a member of exactly the
\* room its registry entry shows: of no room if the entry's room is "", and
\* otherwise of that room and no other.
C20_MembershipAgrees ==
  Quiescent
  => \A n \in DOMAIN users :
       \A r \in Rooms : (n \in members[r]) <=> (users[n].room = r)

\* C21: over a room collaborator none of whose calls fails, whenever no
\* operation is in flight a name whose session was removed from the
\* registry (by the logUserOut of a LogOut or a Kick) and that has no entry
\* is a member of no room.
C21_NoGhostMembership ==
  Quiescent
  => \A n \in Names :
       (removed[n] # << >> /\ n \notin DOMAIN users)
       => \A r \in Rooms : n \notin members[r]

\* The fields of a User that never change while its session lives.
Identity(u) ==
  [name |-> u.name, databaseID |-> u.databaseID, isGuest |-> u.isGuest,
   socket |-> u.socket]

\* C22: the logUserOut sent by a Kick removes an entry only if it is the
\* session Kick's Get step returned: the entry it deletes has the name,
\* databaseID, guest flag and socket of Kick's local user, so a session a
\* later Login created under the name is left in place.
C22_KickRemovesObserved ==
  [][ \A r \in running :
        ( /\ Completes(r)
          /\ r[2].fn = "logUserOut"
          /\ op[r[2].by].kind = "Kick"
          /\ r[2].arg.name \in DOMAIN users
          /\ r[2].arg.name \notin DOMAIN users' )
        => Identity(users[r[2].arg.name]) = Identity(kuser[r[2].by][1])
    ]_vars

====
